---- MODULE Spec2Model ----
(***************************************************************************)
(* MTAS: role-based contact directory and SMS routing.                     *)
(*                                                                         *)
(* The model covers the inbound SMS handler (functions/handleSms.ts), the  *)
(* fan-out helpers (services/twilio.ts), the Firestore directory service   *)
(* (services/firestore.ts) and the REST user-management API                *)
(* (functions/userManagementApi.ts).  Every await on Firestore or Twilio   *)
(* is an interleaving point: requests run as concurrent processes and an   *)
(* action is the code between two awaits.                                  *)
(***************************************************************************)
EXTENDS Integers, Sequences, FiniteSets, TLC

\* ------------------------------------------------------------------ bounds
MaxDocs  == 3      \* documents ever inserted in the users collection
NumProcs == 2      \* requests in flight at the same time
MaxReqs  == 3      \* requests received in one behaviour

DocIds == 1..MaxDocs
Procs  == 1..NumProcs

\* ------------------------------------------------------------------ values
SUBSCRIBER == "SUBSCRIBER"
STAFF      == "STAFF"
ADMIN      == "ADMIN"
\* The reviewers' role has two names in the sources: ADMIN in services/twilio.ts
\* and in the first version of the service, SUPERVISOR in the handler and in the
\* enumeration of models/Role.ts, which has no ADMIN.  The design document takes
\* the two names as one role, and so does the model.
SUPERVISOR == ADMIN
Role       == {SUBSCRIBER, STAFF, SUPERVISOR}

Phones   == {"+1A", "+1B"}     \* numbers that are put in the directory
Unknown  == "+1X"              \* a number that is never put in the directory
Message  == "fire drill"
Names    == {"Al", "Bo"}
RoleSets == SUBSET Role        \* the role arrays that pass the validation
\* the role arrays sent to the API when requests overlap
ApiRoleSets == {{}, {SUBSCRIBER}, {STAFF}, {SUBSCRIBER, ADMIN}}

\* The request bodies tried.  "" stands for a missing value and "BOGUS" for a
\* token outside Role; a request carries at most one of them.
SmsInputs ==
  {<<from, Message>> : from \in Phones \cup {Unknown}} \cup {<<"", Message>>, <<"+1A", "">>}
PostInputs ==
  {<<name, phoneNumber, roles>> : name \in Names, phoneNumber \in Phones, roles \in ApiRoleSets}
    \cup {<<"", "+1A", {SUBSCRIBER}>>, <<"Al", "", {SUBSCRIBER}>>,
          <<"Al", "+1A", {SUBSCRIBER, "BOGUS"}>>}
PutInputs ==
  {<<phoneNumber, roles>> : phoneNumber \in Phones, roles \in ApiRoleSets}
    \cup {<<"", {SUBSCRIBER}>>, <<"+1A", {"BOGUS"}>>}
DeleteInputs == Phones \cup {""}

\* A role array is read by the code only through includes / array-contains,
\* so it is kept as the set of its elements.
includes(roles, r) == r \in roles

\* ------------------------------------------------------------------ state
VARIABLES
  docs,    \* the users collection: document id -> User
  used,    \* document ids handed out so far (auto ids are never handed out twice)
  pc,      \* per request: the await it is suspended at
  req,     \* per request: its parameters and local variables
  sends,   \* per request: the calls of sendSms it made, in call order
  res,     \* per request: the HTTP status it answered with, 0 for none yet
  nreq     \* requests received so far

vars == <<docs, used, pc, req, sends, res, nreq>>

Req0 == [kind |-> "none", phone |-> "", body |-> "", name |-> "", roles |-> {},
         target |-> "", user |-> <<>>, list |-> <<>>, snap |-> <<>>]

\* ------------------------------------------------------------------ store
RECURSIVE SortedIds(_)
\* Firestore returns the documents of a query in document-id order.
SortedIds(S) ==
  IF S = {} THEN <<>>
  ELSE LET m == CHOOSE x \in S : \A y \in S : x <= y
       IN <<m>> \o SortedIds(S \ {m})

\* collection.where('phoneNumber', '==', phoneNumber).get(): the matching ids
WherePhone(d, phoneNumber) ==
  SortedIds({i \in DOMAIN d : d[i].phoneNumber = phoneNumber})
\* (mutant) the last document of the snapshot is returned
getUserByPhoneNumber_Last(d, phoneNumber) ==
  LET snapshot == WherePhone(d, phoneNumber)
  IN IF snapshot = <<>> THEN <<>> ELSE <<d[snapshot[Len(snapshot)]]>>

getUserByPhoneNumber(d, phoneNumber) ==
  LET snapshot == WherePhone(d, phoneNumber)
  IN IF snapshot = <<>> THEN <<>> ELSE <<d[snapshot[1]]>>
\* (mutant) one user per phone number is listed, the first holding the role
listUsersByRole_OnePerPhone(d, role) ==
  LET holds == {i \in DOMAIN d : includes(d[i].roles, role)}
      ids == SortedIds({i \in holds :
                          \A j \in holds : d[j].phoneNumber = d[i].phoneNumber => i <= j})
  IN [k \in 1..Len(ids) |-> d[ids[k]]]

listUsersByRole(d, role) ==
  LET ids == SortedIds({i \in DOMAIN d : includes(d[i].roles, role)})
  IN [k \in 1..Len(ids) |-> d[ids[k]]]

listUsers(d) ==
  LET ids == SortedIds(DOMAIN d)
  IN [k \in 1..Len(ids) |-> d[ids[k]]]

Init ==
  /\ docs = << >>
  /\ used = {}
  /\ pc = [p \in Procs |-> "idle"]
  /\ req = [p \in Procs |-> Req0]
  /\ sends = [p \in Procs |-> <<>>]
  /\ res = [p \in Procs |-> 0]
  /\ nreq = 0

\* ------------------------------------------------------------------ twilio
\* sendSms(to, body): the call of twilioClient.messages.create is made when
\* sendSms is called; the message settles later (SendOk / SendFail).  The text
\* is kept as its template (kind) and the values substituted in it.
sendSms(to, kind, who, body) ==
  [to |-> to, kind |-> kind, who |-> who, body |-> body, status |-> "inflight"]
\* (mutant) the sender is filtered out of the admins, as broadcastMessage does
\* with the subscribers
forwardMessageToAdmins_ExceptSender(admins, fromNumber, message) ==
  LET others == SelectSeq(admins, LAMBDA user : user.phoneNumber # fromNumber)
  IN [k \in 1..Len(others) |->
        sendSms(others[k].phoneNumber, "forward", fromNumber, message)]

\* forwardMessageToAdmins: one sendSms per listed admin, all called by map
forwardMessageToAdmins(admins, fromNumber, message) ==
  [k \in 1..Len(admins) |->
     sendSms(admins[k].phoneNumber, "forward", fromNumber, message)]

\* services/index.ts is not part of the sources at hand: the name imported by
\* the handler is the forwarding helper of services/twilio.ts.
forwardMessageToSupervisor(admins, fromNumber, message) ==
  forwardMessageToAdmins(admins, fromNumber, message)

\* (mutant) the sender is not filtered out of the subscribers
broadcastMessage_NoFilter(subscribers, sender, fromNumber, message) ==
  LET senderName == IF sender # <<>> THEN sender[1].name ELSE fromNumber
  IN [k \in 1..Len(subscribers) |->
        sendSms(subscribers[k].phoneNumber, "broadcast", senderName, message)]

\* broadcastMessage after its two reads: filter out the sender, map sendSms
broadcastMessage(subscribers, sender, fromNumber, message) ==
  LET senderName == IF sender # <<>> THEN sender[1].name ELSE fromNumber
      others == SelectSeq(subscribers, LAMBDA user : user.phoneNumber # fromNumber)
  IN [k \in 1..Len(others) |->
        sendSms(others[k].phoneNumber, "broadcast", senderName, message)]

FanoutKinds  == {"forward", "broadcast"}
ConfirmKinds == {"confirm_forward", "confirm_broadcast"}

\* Promise.all over the fan-out sends of s: fulfilled when every one is
AllOk(s) == \A k \in 1..Len(s) : s[k].kind \in FanoutKinds => s[k].status = "ok"

\* ------------------------------------------------------------------ handleSms
Respond(p, status) ==
  /\ res' = [res EXCEPT ![p] = status]
  /\ pc' = [pc EXCEPT ![p] = "done"]

\* the first branch of the handler (handleSms.ts:37-39)
ForwardBranch(user) ==
  \/ user = <<>>
  \/ /\ user # <<>>
     /\ includes(user[1].roles, SUBSCRIBER)
     /\ ~includes(user[1].roles, STAFF)
     /\ ~includes(user[1].roles, SUPERVISOR)
\* (mutant) only STAFF opens the broadcast: the reviewers' role is not the one
\* the handler trusts
BroadcastBranch_StaffOnly(user) ==
  /\ ~ForwardBranch(user)
  /\ includes(user[1].roles, STAFF)

\* the else-if branch (handleSms.ts:47)
BroadcastBranch(user) ==
  /\ ~ForwardBranch(user)
  /\ (includes(user[1].roles, STAFF) \/ includes(user[1].roles, SUPERVISOR))

\* (mutant) the confirmation of a forwarded message is forgotten
AfterForward_NoConfirm(p, s) ==
  /\ sends' = [sends EXCEPT ![p] = s]
  /\ Respond(p, 200)

\* (mutant) the confirmation is sent without the test on user
AfterForward_AlwaysConfirm(p, s) ==
  /\ sends' = [sends EXCEPT ![p] =
                 Append(s, sendSms(req[p].phone, "confirm_forward", "", ""))]
  /\ pc' = [pc EXCEPT ![p] = "await_confirm"]
  /\ UNCHANGED res

\* handleSms.ts:43-46 and 55-57, run when the forwarding has resolved
AfterForward(p, s) ==
  IF req[p].user # <<>>
  THEN /\ sends' = [sends EXCEPT ![p] =
                      Append(s, sendSms(req[p].phone, "confirm_forward", "", ""))]
       /\ pc' = [pc EXCEPT ![p] = "await_confirm"]
       /\ UNCHANGED res
  ELSE /\ sends' = [sends EXCEPT ![p] = s]
       /\ Respond(p, 200)

\* (mutant) the handler falls from the broadcast into the forwarding
AfterBroadcast_FallThrough(p, s) ==
  /\ sends' = [sends EXCEPT ![p] = s]
  /\ pc' = [pc EXCEPT ![p] = "fwd_list"]
  /\ UNCHANGED res

\* handleSms.ts:51-52, run when the broadcast has resolved
AfterBroadcast(p, s) ==
  /\ sends' = [sends EXCEPT ![p] =
                 Append(s, sendSms(req[p].phone, "confirm_broadcast", "", ""))]
  /\ pc' = [pc EXCEPT ![p] = "await_confirm"]
  /\ UNCHANGED res
\* (mutant) the test of From and Body is left out
SmsReceive_NoValidation(p, from, body) ==
  /\ pc[p] = "idle"
  /\ nreq < MaxReqs
  /\ nreq' = nreq + 1
  /\ req' = [req EXCEPT ![p] = [Req0 EXCEPT !.kind = "sms", !.phone = from, !.body = body]]
  /\ pc' = [pc EXCEPT ![p] = "sms_lookup"]
  /\ UNCHANGED <<docs, used, sends, res>>

\* the request arrives; a missing From or Body is answered 400
SmsReceive(p, from, body) ==
  /\ pc[p] = "idle"
  /\ nreq < MaxReqs
  /\ nreq' = nreq + 1
  /\ req' = [req EXCEPT ![p] = [Req0 EXCEPT !.kind = "sms", !.phone = from, !.body = body]]
  /\ IF from = "" \/ body = ""
     THEN Respond(p, 400)
     ELSE pc' = [pc EXCEPT ![p] = "sms_lookup"] /\ UNCHANGED res
  /\ UNCHANGED <<docs, used, sends>>

\* (mutant) a sender the lookup does not find is put in the directory as a
\* subscriber before the message is escalated
SmsLookup_Enrol(p) ==
  /\ pc[p] = "sms_lookup"
  /\ LET user == getUserByPhoneNumber(docs, req[p].phone)
     IN /\ req' = [req EXCEPT ![p].user = user]
        /\ IF user = <<>> /\ DocIds \ used # {}
           THEN \E id \in DocIds \ used :
                  /\ docs' = docs @@ (id :> [name |-> req[p].phone,
                                              phoneNumber |-> req[p].phone,
                                              roles |-> {SUBSCRIBER}])
                  /\ used' = used \cup {id}
           ELSE UNCHANGED <<docs, used>>
        /\ IF ForwardBranch(user)
           THEN pc' = [pc EXCEPT ![p] = "fwd_list"] /\ UNCHANGED res
           ELSE IF BroadcastBranch(user)
           THEN pc' = [pc EXCEPT ![p] = "bc_list"] /\ UNCHANGED res
           ELSE Respond(p, 200)
  /\ UNCHANGED <<sends, nreq>>

\* await getUserByPhoneNumber(from), then the choice of the branch
SmsLookup(p) ==
  /\ pc[p] = "sms_lookup"
  /\ LET user == getUserByPhoneNumber(docs, req[p].phone)
     IN /\ req' = [req EXCEPT ![p].user = user]
        /\ IF ForwardBranch(user)
           THEN pc' = [pc EXCEPT ![p] = "fwd_list"] /\ UNCHANGED res
           ELSE IF BroadcastBranch(user)
           THEN pc' = [pc EXCEPT ![p] = "bc_list"] /\ UNCHANGED res
           ELSE Respond(p, 200)
  /\ UNCHANGED <<docs, used, sends, nreq>>
\* (mutant) the forwarding is not awaited: the handler goes on as soon as the
\* sends are started
FwdList_NoAwait(p) ==
  /\ pc[p] = "fwd_list"
  /\ LET admins == listUsersByRole(docs, ADMIN)
         new == forwardMessageToSupervisor(admins, req[p].phone, req[p].body)
     IN AfterForward(p, sends[p] \o new)
  /\ UNCHANGED <<docs, used, req, nreq>>

\* forwardMessageToSupervisor: await listUsersByRole(ADMIN), then every send is
\* started; Promise.all of no send at all is fulfilled at once
FwdList(p) ==
  /\ pc[p] = "fwd_list"
  /\ LET admins == listUsersByRole(docs, ADMIN)
         new == forwardMessageToSupervisor(admins, req[p].phone, req[p].body)
         s == sends[p] \o new
     IN IF new = <<>>
        THEN AfterForward(p, s)
        ELSE /\ sends' = [sends EXCEPT ![p] = s]
             /\ pc' = [pc EXCEPT ![p] = "await_fwd"]
             /\ UNCHANGED res
  /\ UNCHANGED <<docs, used, req, nreq>>

\* (mutant) the broadcast goes to every user of the directory
BcList_AllUsers(p) ==
  /\ pc[p] = "bc_list"
  /\ req' = [req EXCEPT ![p].list = listUsers(docs)]
  /\ pc' = [pc EXCEPT ![p] = "bc_sender"]
  /\ UNCHANGED <<docs, used, sends, res, nreq>>

\* broadcastMessage: await listUsersByRole(SUBSCRIBER)
BcList(p) ==
  /\ pc[p] = "bc_list"
  /\ req' = [req EXCEPT ![p].list = listUsersByRole(docs, SUBSCRIBER)]
  /\ pc' = [pc EXCEPT ![p] = "bc_sender"]
  /\ UNCHANGED <<docs, used, sends, res, nreq>>

\* broadcastMessage: await getUserByPhoneNumber(fromNumber), then every send
\* is started
BcSender(p) ==
  /\ pc[p] = "bc_sender"
  /\ LET sender == getUserByPhoneNumber(docs, req[p].phone)
         new == broadcastMessage(req[p].list, sender, req[p].phone, req[p].body)
         s == sends[p] \o new
     IN IF new = <<>>
        THEN AfterBroadcast(p, s)
        ELSE /\ sends' = [sends EXCEPT ![p] = s]
             /\ pc' = [pc EXCEPT ![p] = "await_bc"]
             /\ UNCHANGED res
  /\ UNCHANGED <<docs, used, req, nreq>>

\* (mutant) the handler goes on at the first message accepted
SendOk_Eager(p, i) ==
  /\ i \in 1..Len(sends[p])
  /\ sends[p][i].status = "inflight"
  /\ LET s == [sends[p] EXCEPT ![i].status = "ok"]
     IN CASE pc[p] = "await_fwd" -> AfterForward(p, s)
          [] pc[p] = "await_bc" -> AfterBroadcast(p, s)
          [] pc[p] = "await_confirm" ->
               sends' = [sends EXCEPT ![p] = s] /\ Respond(p, 200)
          [] OTHER -> sends' = [sends EXCEPT ![p] = s] /\ UNCHANGED <<pc, res>>
  /\ UNCHANGED <<docs, used, req, nreq>>

\* one message is accepted by Twilio; the handler goes on when the promise it
\* awaits is fulfilled by it
SendOk(p, i) ==
  /\ i \in 1..Len(sends[p])
  /\ sends[p][i].status = "inflight"
  /\ LET s == [sends[p] EXCEPT ![i].status = "ok"]
     IN CASE pc[p] = "await_fwd" /\ AllOk(s) -> AfterForward(p, s)
          [] pc[p] = "await_bc" /\ AllOk(s) -> AfterBroadcast(p, s)
          [] pc[p] = "await_confirm" ->
               sends' = [sends EXCEPT ![p] = s] /\ Respond(p, 200)
          [] OTHER -> sends' = [sends EXCEPT ![p] = s] /\ UNCHANGED <<pc, res>>
  /\ UNCHANGED <<docs, used, req, nreq>>

\* (mutant) a refused message is swallowed: the handler keeps waiting
SendFail_Ignored(p, i) ==
  /\ i \in 1..Len(sends[p])
  /\ sends[p][i].status = "inflight"
  /\ sends' = [sends EXCEPT ![p][i].status = "fail"]
  /\ UNCHANGED <<pc, res>>
  /\ UNCHANGED <<docs, used, req, nreq>>

\* (mutant) a refused message cancels the sends still in flight
SendFail_CancelRest(p, i) ==
  /\ i \in 1..Len(sends[p])
  /\ sends[p][i].status = "inflight"
  /\ sends' = [sends EXCEPT ![p] =
                 SelectSeq([sends[p] EXCEPT ![i].status = "fail"],
                           LAMBDA m : m.status # "inflight")]
  /\ IF pc[p] \in {"await_fwd", "await_bc", "await_confirm"}
     THEN Respond(p, 500)
     ELSE UNCHANGED <<pc, res>>
  /\ UNCHANGED <<docs, used, req, nreq>>

\* one message is refused; Promise.all rejects on the first rejection and the
\* handler's catch answers 500 (handleSms.ts:58-61)
SendFail(p, i) ==
  /\ i \in 1..Len(sends[p])
  /\ sends[p][i].status = "inflight"
  /\ sends' = [sends EXCEPT ![p][i].status = "fail"]
  /\ IF pc[p] \in {"await_fwd", "await_bc", "await_confirm"}
     THEN Respond(p, 500)
     ELSE UNCHANGED <<pc, res>>
  /\ UNCHANGED <<docs, used, req, nreq>>

\* the awaits on Firestore
StorePcs == {"sms_lookup", "fwd_list", "bc_list", "bc_sender", "post_check", "post_add",
             "put_query", "put_commit", "del_check", "del_query", "del_commit",
             "adm_lookup", "adm_add", "adm_rm_query", "adm_rm_commit",
             "adm_up_query", "adm_up_commit", "adm_list"}
\* (mutant) the catch swallows the error and the handler acknowledges
StoreFail_Swallowed(p) ==
  /\ pc[p] \in StorePcs
  /\ Respond(p, 200)
  /\ UNCHANGED <<docs, used, req, sends, nreq>>

\* a Firestore call of the request throws (nothing is written); the catch of
\* the handler answers 500
StoreFail(p) ==
  /\ pc[p] \in StorePcs
  /\ Respond(p, 500)
  /\ UNCHANGED <<docs, used, req, sends, nreq>>

\* ------------------------------------------------------------------ directory
\* addUser: collection.add gives the new document an id never used before
addUser(d, id, name, phoneNumber, roles) ==
  d @@ (id :> [name |-> name, phoneNumber |-> phoneNumber, roles |-> roles])

\* (mutant) only the first document of the snapshot is deleted
removeUserCommit_FirstOnly(d, snap) ==
  IF snap = <<>> THEN d ELSE [i \in DOMAIN d \ {snap[1]} |-> d[i]]

\* the batch of removeUser, committed: every document of the snapshot deleted
\* (deleting a document that is already gone is not an error)
removeUserCommit(d, snap) ==
  LET gone == {snap[k] : k \in 1..Len(snap)}
  IN [i \in DOMAIN d \ gone |-> d[i]]
\* (mutant) the roles of the request are added to the roles the record has
updateUserRolesCommit_Merge(d, snap, roles) ==
  LET hit == {snap[k] : k \in 1..Len(snap)}
  IN [i \in DOMAIN d |->
        IF i \in hit THEN [d[i] EXCEPT !.roles = d[i].roles \cup roles] ELSE d[i]]

\* (mutant) the roles are written to the first document of the snapshot only
updateUserRolesCommit_FirstOnly(d, snap, roles) ==
  [i \in DOMAIN d |-> IF i = snap[1] THEN [d[i] EXCEPT !.roles = roles] ELSE d[i]]

\* (mutant) the commit reads the matches again and writes to all of them
updateUserRolesCommit_Requery(d, snap, roles) ==
  LET phones == {d[snap[k]].phoneNumber : k \in 1..Len(snap)}
  IN [i \in DOMAIN d |->
        IF d[i].phoneNumber \in phones THEN [d[i] EXCEPT !.roles = roles] ELSE d[i]]

\* the batch of updateUserRoles, committed: { roles } written to every document
\* of the snapshot
updateUserRolesCommit(d, snap, roles) ==
  LET hit == {snap[k] : k \in 1..Len(snap)}
  IN [i \in DOMAIN d |-> IF i \in hit THEN [d[i] EXCEPT !.roles = roles] ELSE d[i]]

\* batch.update needs its document to exist: the commit of a batch holding an
\* update of a deleted document fails as a whole
CanCommitUpdate(d, snap) == \A k \in 1..Len(snap) : snap[k] \in DOMAIN d

\* the validation loop: every role of the array is a value of Role
ValidRoles(roles) == \A role \in roles : role \in Role

\* POST /api/users: validation of the body
ApiPostReceive(p, name, phoneNumber, roles) ==
  /\ pc[p] = "idle"
  /\ nreq < MaxReqs
  /\ nreq' = nreq + 1
  /\ req' = [req EXCEPT ![p] = [Req0 EXCEPT !.kind = "post", !.name = name,
                                            !.phone = phoneNumber, !.roles = roles]]
  /\ IF name = "" \/ phoneNumber = "" \/ ~ValidRoles(roles)
     THEN Respond(p, 400)
     ELSE pc' = [pc EXCEPT ![p] = "post_check"] /\ UNCHANGED res
  /\ UNCHANGED <<docs, used, sends>>

\* (mutant) the return after the 409 is missing: the handler goes on to add
ApiPostCheck_MissingReturn(p) ==
  /\ pc[p] = "post_check"
  /\ LET existingUser == getUserByPhoneNumber(docs, req[p].phone)
     IN /\ req' = [req EXCEPT ![p].user = existingUser]
        /\ res' = [res EXCEPT ![p] = IF existingUser # <<>> THEN 409 ELSE res[p]]
        /\ pc' = [pc EXCEPT ![p] = "post_add"]
  /\ UNCHANGED <<docs, used, sends, nreq>>

\* (mutant) the lookup before the insert is left out
ApiPostCheck_NoConflict(p) ==
  /\ pc[p] = "post_check"
  /\ pc' = [pc EXCEPT ![p] = "post_add"]
  /\ UNCHANGED <<docs, used, req, sends, res, nreq>>

\* POST: await getUserByPhoneNumber(phoneNumber); 409 when a user is found
ApiPostCheck(p) ==
  /\ pc[p] = "post_check"
  /\ LET existingUser == getUserByPhoneNumber(docs, req[p].phone)
     IN /\ req' = [req EXCEPT ![p].user = existingUser]
        /\ IF existingUser # <<>>
           THEN Respond(p, 409)
           ELSE pc' = [pc EXCEPT ![p] = "post_add"] /\ UNCHANGED res
  /\ UNCHANGED <<docs, used, sends, nreq>>

\* (mutant) the lookup and the insert are one transaction: the insert is given
\* up when the phone has a record by then
ApiPostAdd_Transactional(p) ==
  /\ pc[p] = "post_add"
  /\ IF getUserByPhoneNumber(docs, req[p].phone) # <<>>
     THEN /\ UNCHANGED <<docs, used>>
          /\ Respond(p, 409)
     ELSE /\ \E id \in DocIds \ used :
               /\ docs' = addUser(docs, id, req[p].name, req[p].phone, req[p].roles)
               /\ used' = used \cup {id}
          /\ Respond(p, 201)
  /\ UNCHANGED <<req, sends, nreq>>

\* POST: await addUser(name, phoneNumber, roles); 201
ApiPostAdd(p) ==
  /\ pc[p] = "post_add"
  /\ \E id \in DocIds \ used :
       /\ docs' = addUser(docs, id, req[p].name, req[p].phone, req[p].roles)
       /\ used' = used \cup {id}
  /\ Respond(p, 201)
  /\ UNCHANGED <<req, sends, nreq>>

\* (mutant) the loop over the roles is left out of the validation
ApiPutReceive_NoRoleCheck(p, phoneNumber, roles) ==
  /\ pc[p] = "idle"
  /\ nreq < MaxReqs
  /\ nreq' = nreq + 1
  /\ req' = [req EXCEPT ![p] = [Req0 EXCEPT !.kind = "put", !.phone = phoneNumber,
                                            !.roles = roles]]
  /\ IF phoneNumber = ""
     THEN Respond(p, 400)
     ELSE pc' = [pc EXCEPT ![p] = "put_query"] /\ UNCHANGED res
  /\ UNCHANGED <<docs, used, sends>>

\* PUT /api/users/:phoneNumber: validation of the parameter and the body
ApiPutReceive(p, phoneNumber, roles) ==
  /\ pc[p] = "idle"
  /\ nreq < MaxReqs
  /\ nreq' = nreq + 1
  /\ req' = [req EXCEPT ![p] = [Req0 EXCEPT !.kind = "put", !.phone = phoneNumber,
                                            !.roles = roles]]
  /\ IF phoneNumber = "" \/ ~ValidRoles(roles)
     THEN Respond(p, 400)
     ELSE pc' = [pc EXCEPT ![p] = "put_query"] /\ UNCHANGED res
  /\ UNCHANGED <<docs, used, sends>>

\* (mutant) the test of the empty snapshot is missing
ApiPutQuery_NoCheck(p) ==
  /\ pc[p] = "put_query"
  /\ req' = [req EXCEPT ![p].snap = WherePhone(docs, req[p].phone)]
  /\ pc' = [pc EXCEPT ![p] = "put_commit"]
  /\ UNCHANGED <<docs, used, sends, res, nreq>>

\* updateUserRoles: await the query by phone number; on an empty snapshot it
\* throws 'No user found', which the route answers with 404
ApiPutQuery(p) ==
  /\ pc[p] = "put_query"
  /\ LET snapshot == WherePhone(docs, req[p].phone)
     IN /\ req' = [req EXCEPT ![p].snap = snapshot]
        /\ IF snapshot = <<>>
           THEN Respond(p, 404)
           ELSE pc' = [pc EXCEPT ![p] = "put_commit"] /\ UNCHANGED res
  /\ UNCHANGED <<docs, used, sends, nreq>>
\* (mutant) the roles are written document by document, not in one batch
ApiPutCommit_Unbatched(p) ==
  /\ pc[p] = "put_commit"
  /\ IF req[p].snap[1] \in DOMAIN docs
     THEN /\ docs' = updateUserRolesCommit(docs, <<req[p].snap[1]>>, req[p].roles)
          /\ req' = [req EXCEPT ![p].snap = Tail(@)]
          /\ IF Len(req[p].snap) = 1
             THEN Respond(p, 200)
             ELSE UNCHANGED <<pc, res>>
     ELSE /\ UNCHANGED <<docs, req>>
          /\ Respond(p, 500)
  /\ UNCHANGED <<used, sends, nreq>>

\* updateUserRoles: await batch.commit(); 200, or 500 when the commit fails
ApiPutCommit(p) ==
  /\ pc[p] = "put_commit"
  /\ IF CanCommitUpdate(docs, req[p].snap)
     THEN /\ docs' = updateUserRolesCommit(docs, req[p].snap, req[p].roles)
          /\ Respond(p, 200)
     ELSE /\ UNCHANGED docs
          /\ Respond(p, 500)
  /\ UNCHANGED <<used, req, sends, nreq>>

\* DELETE /api/users/:phoneNumber: validation of the parameter
ApiDeleteReceive(p, phoneNumber) ==
  /\ pc[p] = "idle"
  /\ nreq < MaxReqs
  /\ nreq' = nreq + 1
  /\ req' = [req EXCEPT ![p] = [Req0 EXCEPT !.kind = "delete", !.phone = phoneNumber]]
  /\ IF phoneNumber = ""
     THEN Respond(p, 400)
     ELSE pc' = [pc EXCEPT ![p] = "del_check"] /\ UNCHANGED res
  /\ UNCHANGED <<docs, used, sends>>

\* (mutant) the lookup before removeUser is left out
ApiDeleteCheck_NoCheck(p) ==
  /\ pc[p] = "del_check"
  /\ pc' = [pc EXCEPT ![p] = "del_query"]
  /\ UNCHANGED <<docs, used, req, sends, res, nreq>>

\* DELETE: await getUserByPhoneNumber(phoneNumber); 404 when no user is found
ApiDeleteCheck(p) ==
  /\ pc[p] = "del_check"
  /\ LET existingUser == getUserByPhoneNumber(docs, req[p].phone)
     IN /\ req' = [req EXCEPT ![p].user = existingUser]
        /\ IF existingUser = <<>>
           THEN Respond(p, 404)
           ELSE pc' = [pc EXCEPT ![p] = "del_query"] /\ UNCHANGED res
  /\ UNCHANGED <<docs, used, sends, nreq>>

\* (mutant) removeUser throws on an empty snapshot, as updateUserRoles does
ApiDeleteQuery_ThrowOnEmpty(p) ==
  /\ pc[p] = "del_query"
  /\ LET snapshot == WherePhone(docs, req[p].phone)
     IN /\ req' = [req EXCEPT ![p].snap = snapshot]
        /\ IF snapshot = <<>>
           THEN Respond(p, 404)
           ELSE pc' = [pc EXCEPT ![p] = "del_commit"] /\ UNCHANGED res
  /\ UNCHANGED <<docs, used, sends, nreq>>

\* removeUser: await the query by phone number
ApiDeleteQuery(p) ==
  /\ pc[p] = "del_query"
  /\ req' = [req EXCEPT ![p].snap = WherePhone(docs, req[p].phone)]
  /\ pc' = [pc EXCEPT ![p] = "del_commit"]
  /\ UNCHANGED <<docs, used, sends, res, nreq>>

\* removeUser: await batch.commit(); 200
ApiDeleteCommit(p) ==
  /\ pc[p] = "del_commit"
  /\ docs' = removeUserCommit(docs, req[p].snap)
  /\ Respond(p, 200)
  /\ UNCHANGED <<used, req, sends, nreq>>

\* the request is over and its messages settled: the slot serves a new request
Finish(p) ==
  /\ pc[p] = "done"
  /\ \A k \in 1..Len(sends[p]) : sends[p][k].status # "inflight"
  /\ pc' = [pc EXCEPT ![p] = "idle"]
  /\ req' = [req EXCEPT ![p] = Req0]
  /\ sends' = [sends EXCEPT ![p] = <<>>]
  /\ res' = [res EXCEPT ![p] = 0]
  /\ UNCHANGED <<docs, used, nreq>>

Next ==
  \E p \in Procs :
    \/ \E in \in SmsInputs : SmsReceive(p, in[1], in[2])
    \/ SmsLookup(p)
    \/ FwdList(p)
    \/ BcList(p)
    \/ BcSender(p)
    \/ \E i \in DOMAIN sends[p] : SendOk(p, i)
    \/ \E i \in DOMAIN sends[p] : SendFail(p, i)
    \/ \E in \in PostInputs : ApiPostReceive(p, in[1], in[2], in[3])
    \/ ApiPostCheck(p)
    \/ ApiPostAdd(p)
    \/ \E in \in PutInputs : ApiPutReceive(p, in[1], in[2])
    \/ ApiPutQuery(p)
    \/ ApiPutCommit(p)
    \/ \E phoneNumber \in DeleteInputs : ApiDeleteReceive(p, phoneNumber)
    \/ ApiDeleteCheck(p)
    \/ ApiDeleteQuery(p)
    \/ ApiDeleteCommit(p)
    \/ StoreFail(p)
    \/ Finish(p)

\* Requests of every kind, overlapping, on a directory that starts empty.
Spec == Init /\ [][Next]_vars

\* ------------------------------------------------------------------ routing
\* The users collection outlives the process: the handler can find it in any
\* state the directory operations can leave it in.
NameFor(id) == IF id % 2 = 1 THEN "Al" ELSE "Bo"

Directories ==
  UNION {[S -> {[name |-> NameFor(0), phoneNumber |-> ph, roles |-> r] :
                  ph \in Phones, r \in RoleSets}] : S \in SUBSET DocIds}

InitDirectory ==
  /\ docs \in {[i \in DOMAIN d |-> [d[i] EXCEPT !.name = NameFor(i)]] : d \in Directories}
  /\ used = DOMAIN docs
  /\ pc = [p \in Procs |-> "idle"]
  /\ req = [p \in Procs |-> Req0]
  /\ sends = [p \in Procs |-> <<>>]
  /\ res = [p \in Procs |-> 0]
  /\ nreq = 0

\* one inbound message, handled with no other request in flight
NextSms ==
  \/ \E in \in SmsInputs : nreq = 0 /\ SmsReceive(1, in[1], in[2])
  \/ SmsLookup(1)
  \/ FwdList(1)
  \/ BcList(1)
  \/ BcSender(1)
  \/ \E i \in DOMAIN sends[1] : SendOk(1, i)
  \/ \E i \in DOMAIN sends[1] : SendFail(1, i)
  \/ StoreFail(1)

SpecRoute == InitDirectory /\ [][NextSms]_vars

\* ------------------------------------------------------------------ one at a time
\* The answered request leaves and the next one is admitted.  With one request
\* at a time the run is bounded by the document ids, not by the number of
\* requests, so the count starts again.
FinishSerial(p) ==
  /\ pc[p] = "done"
  /\ \A k \in 1..Len(sends[p]) : sends[p][k].status # "inflight"
  /\ pc' = [pc EXCEPT ![p] = "idle"]
  /\ req' = [req EXCEPT ![p] = Req0]
  /\ sends' = [sends EXCEPT ![p] = <<>>]
  /\ res' = [res EXCEPT ![p] = 0]
  /\ nreq' = 0
  /\ UNCHANGED <<docs, used>>

\* the requests of the REST API, none overlapping another
NextSerial ==
  \/ \E in \in PostInputs : ApiPostReceive(1, in[1], in[2], in[3])
  \/ ApiPostCheck(1)
  \/ ApiPostAdd(1)
  \/ \E in \in PutInputs : ApiPutReceive(1, in[1], in[2])
  \/ ApiPutQuery(1)
  \/ ApiPutCommit(1)
  \/ \E phoneNumber \in DeleteInputs : ApiDeleteReceive(1, phoneNumber)
  \/ ApiDeleteCheck(1)
  \/ ApiDeleteQuery(1)
  \/ ApiDeleteCommit(1)
  \/ StoreFail(1)
  \/ FinishSerial(1)

SpecSerial == Init /\ [][NextSerial]_vars

\* ------------------------------------------------------------------ the service
\* removeUser called as it stands, with no lookup before it: index.ts exports
\* the services, and the REMOVE command of the first version calls it so
RemoveUserCall(p, phoneNumber) ==
  /\ pc[p] = "idle"
  /\ nreq < MaxReqs
  /\ nreq' = nreq + 1
  /\ req' = [req EXCEPT ![p] = [Req0 EXCEPT !.kind = "remove", !.phone = phoneNumber]]
  /\ pc' = [pc EXCEPT ![p] = "del_query"]
  /\ UNCHANGED <<docs, used, sends, res>>

\* calls of removeUser in a row, on any directory
NextStore ==
  \/ \E phoneNumber \in Phones \cup {Unknown} : RemoveUserCall(1, phoneNumber)
  \/ ApiDeleteQuery(1)
  \/ ApiDeleteCommit(1)
  \/ StoreFail(1)
  \/ Finish(1)

SpecStore == InitDirectory /\ [][NextStore]_vars

\* ------------------------------------------------------------------ role updates
\* the role arrays of the updates that overlap: neither holds the other
PutRaceInputs == {<<phoneNumber, roles>> :
                    phoneNumber \in Phones, roles \in {{STAFF}, {SUBSCRIBER, ADMIN}}}

\* PUT requests that overlap, one per slot, on any directory
NextPut ==
  \E p \in Procs :
    \/ \E in \in PutRaceInputs : ApiPutReceive(p, in[1], in[2])
    \/ ApiPutQuery(p)
    \/ ApiPutCommit(p)
    \/ StoreFail(p)

SpecPut == InitDirectory /\ [][NextPut]_vars

\* ------------------------------------------------------------------ adminCommand
\* The first version of the service takes the directory commands by SMS:
\* ADD <name> <phone> <roles>, REMOVE <phone>, UPDATE <phone> <roles>, LIST.
\* The roles of a command are upper-cased and cast, not validated.
AdminRoleSets == {{STAFF}, {SUBSCRIBER, "BOGUS"}}

\* <<From, command, name, phone, roles>>; "" for a part the message lacks
AdminInputs ==
  {<<from, in[1], in[2], in[3], in[4]>> :
     from \in Phones \cup {Unknown},
     in \in {<<"ADD", "Bo", ph, r>> : ph \in Phones, r \in AdminRoleSets}
            \cup {<<"REMOVE", "", ph, {}>> : ph \in Phones \cup {Unknown}}
            \cup {<<"UPDATE", "", ph, r>> : ph \in Phones \cup {Unknown}, r \in AdminRoleSets}
            \cup {<<"LIST", "", "", {}>>, <<"HELLO", "", "", {}>>}}
    \cup {<<"", "LIST", "", "", {}>>, <<"+1A", "", "", "", {}>>}

\* the answer to the sender: await sendSms(from, ...), then the TwiML response
AdminReply(p, kind) ==
  /\ sends' = [sends EXCEPT ![p] = Append(@, sendSms(req[p].phone, kind, "", ""))]
  /\ pc' = [pc EXCEPT ![p] = "await_confirm"]
  /\ UNCHANGED res

\* the command arrives; a missing From or Body is answered 400
AdminReceive(p, from, command, name, phoneNumber, roles) ==
  /\ pc[p] = "idle"
  /\ nreq < MaxReqs
  /\ nreq' = nreq + 1
  /\ req' = [req EXCEPT ![p] = [Req0 EXCEPT !.kind = "admin", !.phone = from,
                                            !.body = command, !.name = name,
                                            !.target = phoneNumber, !.roles = roles]]
  /\ IF from = "" \/ command = ""
     THEN Respond(p, 400)
     ELSE pc' = [pc EXCEPT ![p] = "adm_lookup"] /\ UNCHANGED res
  /\ UNCHANGED <<docs, used, sends>>

\* (mutant) the test of the sender's role is left out
AdminLookup_NoPermissionCheck(p) ==
  /\ pc[p] = "adm_lookup"
  /\ LET user == getUserByPhoneNumber(docs, req[p].phone)
     IN /\ req' = [req EXCEPT ![p].user = user]
        /\ CASE req[p].body = "ADD" ->
                  pc' = [pc EXCEPT ![p] = "adm_add"] /\ UNCHANGED <<sends, res>>
             [] req[p].body = "REMOVE" ->
                  pc' = [pc EXCEPT ![p] = "adm_rm_query"] /\ UNCHANGED <<sends, res>>
             [] req[p].body = "UPDATE" ->
                  pc' = [pc EXCEPT ![p] = "adm_up_query"] /\ UNCHANGED <<sends, res>>
             [] req[p].body = "LIST" ->
                  pc' = [pc EXCEPT ![p] = "adm_list"] /\ UNCHANGED <<sends, res>>
             [] OTHER -> AdminReply(p, "invalid")
  /\ UNCHANGED <<docs, used, nreq>>

\* await getUserByPhoneNumber(from); a sender not found or without ADMIN is
\* told so and the command is not read; otherwise the command is parsed
AdminLookup(p) ==
  /\ pc[p] = "adm_lookup"
  /\ LET user == getUserByPhoneNumber(docs, req[p].phone)
     IN /\ req' = [req EXCEPT ![p].user = user]
        /\ IF user = <<>> \/ ~includes(user[1].roles, ADMIN)
           THEN AdminReply(p, "denied")
           ELSE CASE req[p].body = "ADD" ->
                       pc' = [pc EXCEPT ![p] = "adm_add"] /\ UNCHANGED <<sends, res>>
                  [] req[p].body = "REMOVE" ->
                       pc' = [pc EXCEPT ![p] = "adm_rm_query"] /\ UNCHANGED <<sends, res>>
                  [] req[p].body = "UPDATE" ->
                       pc' = [pc EXCEPT ![p] = "adm_up_query"] /\ UNCHANGED <<sends, res>>
                  [] req[p].body = "LIST" ->
                       pc' = [pc EXCEPT ![p] = "adm_list"] /\ UNCHANGED <<sends, res>>
                  [] OTHER -> AdminReply(p, "invalid")
  /\ UNCHANGED <<docs, used, nreq>>

\* (mutant) ADD writes over the record the phone already has
AdminAdd_Upsert(p) ==
  /\ pc[p] = "adm_add"
  /\ LET snapshot == WherePhone(docs, req[p].target)
     IN IF snapshot # <<>>
        THEN /\ docs' = [docs EXCEPT ![snapshot[1]] =
                           [name |-> req[p].name, phoneNumber |-> req[p].target,
                            roles |-> req[p].roles]]
             /\ UNCHANGED used
        ELSE \E id \in DocIds \ used :
               /\ docs' = addUser(docs, id, req[p].name, req[p].target, req[p].roles)
               /\ used' = used \cup {id}
  /\ AdminReply(p, "added")
  /\ UNCHANGED <<req, nreq>>

\* ADD: await addUser(name, phoneNumber, roles), with no lookup before it
AdminAdd(p) ==
  /\ pc[p] = "adm_add"
  /\ \E id \in DocIds \ used :
       /\ docs' = addUser(docs, id, req[p].name, req[p].target, req[p].roles)
       /\ used' = used \cup {id}
  /\ AdminReply(p, "added")
  /\ UNCHANGED <<req, nreq>>

\* REMOVE: removeUser, the query by phone number
AdminRemoveQuery(p) ==
  /\ pc[p] = "adm_rm_query"
  /\ req' = [req EXCEPT ![p].snap = WherePhone(docs, req[p].target)]
  /\ pc' = [pc EXCEPT ![p] = "adm_rm_commit"]
  /\ UNCHANGED <<docs, used, sends, res, nreq>>

\* REMOVE: removeUser, await batch.commit()
AdminRemoveCommit(p) ==
  /\ pc[p] = "adm_rm_commit"
  /\ docs' = removeUserCommit(docs, req[p].snap)
  /\ AdminReply(p, "removed")
  /\ UNCHANGED <<used, req, nreq>>

\* UPDATE: updateUserRoles, the query by phone number; 'No user found' is
\* thrown on an empty snapshot and the catch of the command answers 500
AdminUpdateQuery(p) ==
  /\ pc[p] = "adm_up_query"
  /\ LET snapshot == WherePhone(docs, req[p].target)
     IN /\ req' = [req EXCEPT ![p].snap = snapshot]
        /\ IF snapshot = <<>>
           THEN Respond(p, 500)
           ELSE pc' = [pc EXCEPT ![p] = "adm_up_commit"] /\ UNCHANGED res
  /\ UNCHANGED <<docs, used, sends, nreq>>

\* UPDATE: updateUserRoles, await batch.commit()
AdminUpdateCommit(p) ==
  /\ pc[p] = "adm_up_commit"
  /\ IF CanCommitUpdate(docs, req[p].snap)
     THEN /\ docs' = updateUserRolesCommit(docs, req[p].snap, req[p].roles)
          /\ AdminReply(p, "updated")
     ELSE /\ UNCHANGED <<docs, sends>>
          /\ Respond(p, 500)
  /\ UNCHANGED <<used, req, nreq>>

\* LIST: await listUsers()
AdminList(p) ==
  /\ pc[p] = "adm_list"
  /\ req' = [req EXCEPT ![p].list = listUsers(docs)]
  /\ AdminReply(p, "list")
  /\ UNCHANGED <<docs, used, nreq>>

\* one command, handled with no other request in flight
NextAdmin ==
  \/ \E in \in AdminInputs : nreq = 0 /\ AdminReceive(1, in[1], in[2], in[3], in[4], in[5])
  \/ AdminLookup(1)
  \/ AdminAdd(1)
  \/ AdminRemoveQuery(1)
  \/ AdminRemoveCommit(1)
  \/ AdminUpdateQuery(1)
  \/ AdminUpdateCommit(1)
  \/ AdminList(1)
  \/ \E i \in DOMAIN sends[1] : SendOk(1, i)
  \/ \E i \in DOMAIN sends[1] : SendFail(1, i)
  \/ StoreFail(1)

SpecAdmin == InitDirectory /\ [][NextAdmin]_vars

\* ================================================================== claims
\* Vocabulary of the claims, read off the directory and the message log.
AllPhones == Phones \cup {Unknown}
IsSms(p) == req[p].kind = "sms" /\ req[p].phone # "" /\ req[p].body # ""
RecordsOf(ph) == {i \in DOMAIN docs : docs[i].phoneNumber = ph}
FirstId(ph) == CHOOSE i \in RecordsOf(ph) : \A j \in RecordsOf(ph) : i <= j
HoldersAt(role, ph) == {i \in RecordsOf(ph) : role \in docs[i].roles}
Sent(p, kinds) == {k \in DOMAIN sends[p] : sends[p][k].kind \in kinds}
SentTo(p, kinds, ph) == {k \in Sent(p, kinds) : sends[p][k].to = ph}
FanoutStarted(p) ==
  \/ pc[p] \in {"await_fwd", "await_bc", "await_confirm"}
  \/ pc[p] = "done" /\ sends[p] # <<>>
  \/ res[p] = 200
\* the record the lookup of the sender returns
Unrecognized(p) == RecordsOf(req[p].phone) = {}
FirstRoles(p) == docs[FirstId(req[p].phone)].roles
SubscriberOnly(p) == ~Unrecognized(p) /\ FirstRoles(p) = {SUBSCRIBER}
Originator(p) == ~Unrecognized(p) /\ FirstRoles(p) \cap {STAFF, ADMIN} # {}
\* one copy per record holding the role, none to the phone left out
Escalated(p) ==
  \A ph \in AllPhones :
    Cardinality(SentTo(p, {"forward"}, ph)) = Cardinality(HoldersAt(ADMIN, ph))
Broadcast(p) ==
  \A ph \in AllPhones :
    Cardinality(SentTo(p, {"broadcast"}, ph)) =
      IF ph = req[p].phone THEN 0 ELSE Cardinality(HoldersAt(SUBSCRIBER, ph))
\* at most one confirmation, to the sender, sent once every fan-out send is ok
ConfirmedAfter(p, fanout, confirm) ==
  /\ Cardinality(Sent(p, {confirm})) <= 1
  /\ \A k \in Sent(p, {confirm}) : sends[p][k].to = req[p].phone
  /\ Sent(p, {confirm}) # {} <=>
       (FanoutStarted(p) /\ \A k \in Sent(p, {fanout}) : sends[p][k].status = "ok")
  /\ res[p] = 200 => \E k \in Sent(p, {confirm}) : sends[p][k].status = "ok"

\* C1 (as amended): when the record returned by the lookup of the sender's
\* phone (the first record for it) holds STAFF or ADMIN, the handler, once its
\* reads are done, has started exactly one broadcast send per record holding
\* SUBSCRIBER whose phone is not the sender's, and no other fan-out send; once
\* all of these succeeded it sends exactly one confirmation to the sender.
C1_BroadcastByFirstRecord ==
  \A p \in Procs :
    (IsSms(p) /\ Originator(p)) =>
      /\ Sent(p, {"forward", "confirm_forward"}) = {}
      /\ FanoutStarted(p) => Broadcast(p)
      /\ ConfirmedAfter(p, "broadcast", "confirm_broadcast")

\* C1 as stated: for every Contact holding STAFF or ADMIN, a handled message
\* from its phone was broadcast and confirmed.
C1_Original ==
  \A p \in Procs :
    (/\ IsSms(p)
     /\ \E i \in RecordsOf(req[p].phone) : docs[i].roles \cap {STAFF, ADMIN} # {}
     /\ res[p] = 200) =>
      /\ Broadcast(p)
      /\ Cardinality(Sent(p, {"confirm_broadcast"})) = 1

C1_Witness ==
  \E p \in Procs :
    /\ IsSms(p) /\ Originator(p) /\ res[p] = 200
    /\ HoldersAt(SUBSCRIBER, req[p].phone) # {}
    /\ Cardinality(Sent(p, {"broadcast"})) >= 2

\* C2 (as amended): when the record returned by the lookup of the sender's
\* phone holds SUBSCRIBER only, the handler starts one escalation send per
\* record holding ADMIN, no broadcast, and once these all succeeded sends the
\* sender one confirmation that the message was forwarded.
C2_EscalateByFirstRecord ==
  \A p \in Procs :
    (IsSms(p) /\ SubscriberOnly(p)) =>
      /\ Sent(p, {"broadcast", "confirm_broadcast"}) = {}
      /\ FanoutStarted(p) => Escalated(p)
      /\ ConfirmedAfter(p, "forward", "confirm_forward")

\* C2 as stated: for every Contact holding only SUBSCRIBER, a handled message
\* from its phone was escalated, not broadcast, and confirmed as forwarded.
C2_Original ==
  \A p \in Procs :
    (/\ IsSms(p)
     /\ \E i \in RecordsOf(req[p].phone) : docs[i].roles = {SUBSCRIBER}
     /\ res[p] = 200) =>
      /\ Escalated(p)
      /\ Sent(p, {"broadcast"}) = {}
      /\ Cardinality(Sent(p, {"confirm_forward"})) = 1

C2_Witness ==
  \E p \in Procs :
    /\ IsSms(p) /\ SubscriberOnly(p) /\ res[p] = 200
    /\ Sent(p, {"forward"}) # {}
    /\ \E i \in DOMAIN docs : docs[i].roles = {SUBSCRIBER} /\ docs[i].phoneNumber # req[p].phone

\* C3: a message from a phone with no record is escalated to every record
\* holding ADMIN, and nothing at all is sent to that phone.
C3_UntrustedEscalated ==
  \A p \in Procs :
    (IsSms(p) /\ Unrecognized(p)) =>
      /\ Sent(p, {"broadcast"} \cup ConfirmKinds) = {}
      /\ FanoutStarted(p) => Escalated(p)
      /\ \A k \in DOMAIN sends[p] : sends[p][k].to # req[p].phone

C3_Witness ==
  \E p \in Procs :
    /\ IsSms(p) /\ Unrecognized(p) /\ res[p] = 200
    /\ \E k \in Sent(p, {"forward"}) : sends[p][k].status = "ok"

\* C4 as stated: once the lookup of the sender has answered, the handler goes
\* on to the escalation or to the broadcast, whoever the sender is.
C4_Original ==
  [][\A p \in Procs :
       (pc[p] = "sms_lookup" /\ pc'[p] # "sms_lookup" /\ res'[p] # 500) =>
         pc'[p] \in {"fwd_list", "bc_list"}]_vars

\* C5: no handling of a message holds both an escalation send and a broadcast
\* send (nor the confirmation of the one with the sends of the other).
C5_OneFanout ==
  \A p \in Procs :
    \/ Sent(p, {"forward", "confirm_forward"}) = {}
    \/ Sent(p, {"broadcast", "confirm_broadcast"}) = {}

C5_Witness ==
  \E p \in Procs :
    /\ IsSms(p) /\ res[p] = 200 /\ Sent(p, {"broadcast"}) # {}
    /\ \E ph \in AllPhones : HoldersAt(ADMIN, ph) # {}

\* C6: when a fan-out send has failed the handling has failed as a whole (500,
\* no confirmation), nothing but the fan-out sends was issued (no compensating
\* message), and a send that succeeded stays in the log as delivered.
C6_FailLoud ==
  /\ [](\A p \in Procs :
          (\E k \in Sent(p, FanoutKinds) : sends[p][k].status = "fail") =>
            /\ pc[p] = "done" /\ res[p] = 500
            /\ Sent(p, ConfirmKinds) = {}
            /\ Len(sends[p]) = Cardinality(Sent(p, FanoutKinds)))
  /\ [][\A p \in Procs : \A k \in DOMAIN sends[p] :
          (sends[p][k].status = "ok" /\ req'[p] = req[p]) =>
            (k \in DOMAIN sends'[p] /\ sends'[p][k] = sends[p][k])]_vars

C6_Witness ==
  \E p \in Procs :
    /\ pc[p] = "done" /\ res[p] = 500
    /\ \E k \in Sent(p, FanoutKinds) : sends[p][k].status = "fail"
    /\ Cardinality({k \in Sent(p, FanoutKinds) : sends[p][k].status = "ok"}) >= 2

C8_EveryRecipientOnce ==
  \A p \in Procs :
    (IsSms(p) /\ FanoutStarted(p)) =>
      /\ (Unrecognized(p) \/ SubscriberOnly(p)) => (Escalated(p) /\ Sent(p, {"broadcast"}) = {})
      /\ Originator(p) => (Broadcast(p) /\ Sent(p, {"forward"}) = {})
      /\ \A k \in Sent(p, FanoutKinds) : sends[p][k].status \in {"inflight", "ok", "fail"}

C8_Witness ==
  \E p \in Procs :
    /\ IsSms(p)
    /\ Cardinality(Sent(p, FanoutKinds)) >= 3
    /\ sends[p][1].status = "fail" /\ sends[p][2].status = "ok" /\ sends[p][3].status = "fail"

\* C9: updateUserRoles for a phone with no record changes nothing in the
\* directory and the request is answered 404 (500 when the query itself
\* throws); it is never answered as updated.
C9_UpdateAbsentNotFound ==
  [][\A p \in Procs :
       (pc[p] = "put_query" /\ RecordsOf(req[p].phone) = {} /\ pc'[p] # "put_query") =>
         (docs' = docs /\ pc'[p] = "done" /\ res'[p] \in {404, 500})]_vars

C9_Witness ==
  \E p \in Procs :
    /\ req[p].kind = "put" /\ pc[p] = "done" /\ res[p] = 404
    /\ RecordsOf(req[p].phone) = {} /\ docs # << >>

\* C10: the commit of updateUserRoles leaves the directory as it was or writes
\* the new role set to every record of its snapshot and touches nothing else;
\* the commit of removeUser leaves it as it was or deletes every record of its
\* snapshot and nothing else.
C10_AllOrNothing ==
  [][\A p \in Procs :
       LET snap == {req[p].snap[k] : k \in 1..Len(req[p].snap)}
       IN /\ (pc[p] = "put_commit" /\ pc'[p] # "put_commit") =>
               \/ docs' = docs
               \/ /\ DOMAIN docs' = DOMAIN docs
                  /\ snap \subseteq DOMAIN docs
                  /\ \A i \in DOMAIN docs :
                       docs'[i] = IF i \in snap
                                  THEN [docs[i] EXCEPT !.roles = req[p].roles]
                                  ELSE docs[i]
          /\ (pc[p] = "del_commit" /\ pc'[p] # "del_commit") =>
               \/ docs' = docs
               \/ /\ DOMAIN docs' = DOMAIN docs \ snap
                  /\ \A i \in DOMAIN docs' : docs'[i] = docs[i]]_vars

C10_Witness ==
  \E p \in Procs :
    /\ req[p].kind = "put" /\ pc[p] = "done" /\ res[p] = 200
    /\ Len(req[p].snap) >= 2
    /\ \A k \in 1..Len(req[p].snap) :
         req[p].snap[k] \in DOMAIN docs /\ docs[req[p].snap[k]].roles = req[p].roles
    /\ \E i, j \in RecordsOf(req[p].phone) : docs[i].name # docs[j].name

\* C11: removeUser for a phone with no record goes through its query and its
\* commit without an error and leaves the directory as it was; and on every
\* directory, removing a phone a second time right after the first gives the
\* directory the first removal gave.
C11_RemoveAbsentNoOp ==
  /\ [](\A ph \in AllPhones :
          LET once == removeUserCommit(docs, WherePhone(docs, ph))
          IN removeUserCommit(once, WherePhone(once, ph)) = once)
  /\ [][\A p \in Procs :
          (req[p].kind = "remove" /\ RecordsOf(req[p].phone) = {}) =>
            /\ docs' = docs
            /\ (pc[p] = "del_query" /\ pc'[p] # "del_query") =>
                 (pc'[p] = "del_commit" \/ res'[p] = 500)
            /\ (pc[p] = "del_commit" /\ pc'[p] # "del_commit") =>
                 (pc'[p] = "done" /\ res'[p] \in {200, 500})]_vars

C11_Witness ==
  \E p \in Procs :
    /\ req[p].kind = "remove" /\ pc[p] = "done" /\ res[p] = 200
    /\ req[p].snap = <<>> /\ RecordsOf(req[p].phone) = {}
    /\ req[p].phone \in Phones /\ docs # << >> /\ nreq >= 2

\* C12: with no other request in flight, once removeUser has returned the
\* directory holds no record with that phone (the lookup finds none), however
\* many there were, and no step of it touches a record with another phone.
C12_RemoveDeletesEveryMatch ==
  /\ [](\A p \in Procs :
          (req[p].kind = "remove" /\ pc[p] = "done" /\ res[p] = 200) =>
            /\ RecordsOf(req[p].phone) = {}
            /\ getUserByPhoneNumber(docs, req[p].phone) = <<>>)
  /\ [][\A p \in Procs :
          req[p].kind = "remove" =>
            \A i \in DOMAIN docs :
              docs[i].phoneNumber # req[p].phone =>
                (i \in DOMAIN docs' /\ docs'[i] = docs[i])]_vars

C12_Witness ==
  \E p \in Procs :
    /\ req[p].kind = "remove" /\ pc[p] = "done" /\ res[p] = 200
    /\ Len(req[p].snap) >= 2
    /\ docs # << >>

\* C13 as stated: a delete request for a phone with no record is answered as
\* deleted (a failure of the store apart).
C13_Original ==
  \A p \in Procs :
    (/\ req[p].kind = "delete" /\ req[p].phone # "" /\ pc[p] = "done"
     /\ req[p].user = <<>> /\ RecordsOf(req[p].phone) = {}) =>
      res[p] \in {200, 500}

\* C13 (as amended): a delete request whose lookup finds no record for the
\* phone is answered 404 (not found), removeUser is not called and the
\* directory is left as it was.
C13_DeleteAbsentNotFound ==
  [][\A p \in Procs :
       (/\ req[p].kind = "delete" /\ pc[p] = "del_check" /\ pc'[p] # "del_check"
        /\ RecordsOf(req[p].phone) = {}) =>
         (docs' = docs /\ pc'[p] = "done" /\ res'[p] \in {404, 500})]_vars

C13_Witness ==
  \E p \in Procs :
    /\ req[p].kind = "delete" /\ pc[p] = "done" /\ res[p] = 404
    /\ RecordsOf(req[p].phone) = {}
    /\ docs # << >> /\ used # DOMAIN docs

\* C14: the lookup of a create request that finds a record for the phone ends
\* the request with 409 and nothing inserted; one that finds none leads to the
\* insert, which adds exactly one record, the one of the request, and answers
\* 201 (or fails with the store: 500 and nothing inserted).
C14_ConflictOrCreated ==
  [][\A p \in Procs :
       req[p].kind = "post" =>
         /\ (pc[p] = "post_check" /\ pc'[p] # "post_check") =>
              /\ docs' = docs
              /\ IF RecordsOf(req[p].phone) # {}
                 THEN pc'[p] = "done" /\ res'[p] \in {409, 500}
                 ELSE pc'[p] = "post_add" \/ (pc'[p] = "done" /\ res'[p] = 500)
         /\ (pc[p] = "post_add" /\ pc'[p] # "post_add") =>
              /\ pc'[p] = "done"
              /\ \/ res'[p] = 500 /\ docs' = docs
                 \/ /\ res'[p] = 201
                    /\ \E id \in DOMAIN docs' \ DOMAIN docs :
                         /\ DOMAIN docs' = DOMAIN docs \cup {id}
                         /\ docs'[id] = [name |-> req[p].name, phoneNumber |-> req[p].phone,
                                         roles |-> req[p].roles]
                    /\ \A i \in DOMAIN docs : docs'[i] = docs[i]]_vars

C14_Witness ==
  \E p \in Procs :
    /\ req[p].kind = "post" /\ pc[p] = "done" /\ res[p] = 409
    /\ Cardinality(RecordsOf(req[p].phone)) = 1
    /\ Cardinality(DOMAIN docs) = 2

\* C15: from the empty directory, with the requests of the API run one at a
\* time, no phone number ever has more than one record.
C15_OnePerPhoneSerially ==
  \A ph \in AllPhones : Cardinality(RecordsOf(ph)) <= 1

C15_Witness ==
  /\ \A ph \in Phones : Cardinality(RecordsOf(ph)) = 1
  /\ Cardinality(used) = MaxDocs
  /\ \E p \in Procs : req[p].kind = "post" /\ res[p] = 201

\* C16: the insert of a create request does not depend on the directory it
\* meets: a request that has passed its lookup inserts its record and answers
\* 201 even when the phone has got a record in between, so that two create
\* requests for one phone that overlap are both answered 201 and leave two
\* records for it.
C16_InsertAfterStaleCheck ==
  [][\A p \in Procs :
       (/\ req[p].kind = "post" /\ pc[p] = "post_add" /\ pc'[p] # "post_add"
        /\ RecordsOf(req[p].phone) # {}) =>
         \/ res'[p] = 500 /\ docs' = docs
         \/ /\ res'[p] = 201
            /\ Cardinality({i \in DOMAIN docs' : docs'[i].phoneNumber = req[p].phone}) =
                 Cardinality(RecordsOf(req[p].phone)) + 1]_vars

C16_Witness ==
  \E p, q \in Procs :
    /\ p # q
    /\ req[p].kind = "post" /\ pc[p] = "done" /\ res[p] = 201
    /\ req[q].kind = "post" /\ pc[q] = "done" /\ res[q] = 201
    /\ req[p].phone = req[q].phone
    /\ Cardinality(RecordsOf(req[p].phone)) = 2

\* C17: the commit of updateUserRoles and of removeUser acts on the records of
\* its own query only: a record for the same phone that is not in the snapshot
\* (inserted after the query) is in the directory after the commit as it was
\* before it.
C17_LateRecordUntouched ==
  [][\A p \in Procs :
       LET snap == {req[p].snap[k] : k \in 1..Len(req[p].snap)}
       IN (pc[p] \in {"put_commit", "del_commit"} /\ pc'[p] # pc[p]) =>
            \A i \in RecordsOf(req[p].phone) \ snap :
              i \in DOMAIN docs' /\ docs'[i] = docs[i]]_vars

C17_Witness ==
  \E p \in Procs :
    /\ req[p].kind = "put" /\ pc[p] = "done" /\ res[p] = 200
    /\ \A k \in 1..Len(req[p].snap) :
         req[p].snap[k] \in DOMAIN docs /\ docs[req[p].snap[k]].roles = req[p].roles
    /\ \E i \in RecordsOf(req[p].phone) :
         /\ \A k \in 1..Len(req[p].snap) : req[p].snap[k] # i
         /\ docs[i].roles # req[p].roles

\* C18: a create or replace-roles request whose role array holds a token
\* that is not a Role is answered 400 at once: it never waits on the store (no
\* lookup result, no snapshot) and the directory is as it was.
C18_InvalidRoleRejectedFirst ==
  /\ [](\A p \in Procs :
          (req[p].kind \in {"post", "put"} /\ ~ValidRoles(req[p].roles)) =>
            /\ pc[p] = "done" /\ res[p] = 400
            /\ req[p].user = <<>> /\ req[p].snap = <<>>)
  /\ [][\A p \in Procs :
          ~ValidRoles(req'[p].roles) => (docs' = docs /\ used' = used)]_vars

C18_Witness ==
  \E p \in Procs :
    /\ req[p].kind = "put" /\ ~ValidRoles(req[p].roles) /\ res[p] = 400
    /\ RecordsOf(req[p].phone) # {}

\* C19: no step of the handling of a message, whoever the sender and whatever
\* the outcome, changes the users collection or hands out a document id.
C19_HandlingLeavesDirectory ==
  [][(\E p \in Procs : req[p].kind = "sms" \/ req'[p].kind = "sms") =>
       (docs' = docs /\ used' = used)]_vars

C19_Witness ==
  \E p \in Procs :
    /\ IsSms(p) /\ Unrecognized(p) /\ pc[p] = "done" /\ res[p] = 500
    /\ Sent(p, {"forward"}) # {}
    /\ Cardinality(DOMAIN docs) < MaxDocs

C21_FirstMatchClassifies ==
  [](
    /\ \A ph \in AllPhones :
         getUserByPhoneNumber(docs, ph) =
           IF RecordsOf(ph) = {} THEN <<>> ELSE <<docs[FirstId(ph)]>>
    /\ \A p \in Procs :
         (IsSms(p) /\ (pc[p] \notin {"idle", "sms_lookup", "done"} \/ res[p] = 200)) =>
           /\ req[p].user = IF Unrecognized(p) THEN <<>> ELSE <<docs[FirstId(req[p].phone)]>>
           /\ (pc[p] \in {"fwd_list", "await_fwd"} \/ Sent(p, {"forward", "confirm_forward"}) # {})
                => (Unrecognized(p) \/ SubscriberOnly(p))
           /\ (pc[p] \in {"bc_list", "bc_sender", "await_bc"}
                 \/ Sent(p, {"broadcast", "confirm_broadcast"}) # {})
                => Originator(p)
           /\ (res[p] = 200 /\ sends[p] = <<>>) =>
                \/ Unrecognized(p)
                \/ ~Unrecognized(p) /\ ~SubscriberOnly(p) /\ ~Originator(p)
  )

C21_Witness ==
  \E p \in Procs :
    /\ IsSms(p) /\ res[p] = 200
    /\ Cardinality(RecordsOf(req[p].phone)) >= 2
    /\ SubscriberOnly(p)
    /\ \E i \in RecordsOf(req[p].phone) : STAFF \in docs[i].roles
    /\ Sent(p, {"forward"}) # {}

\* how far the handler of a message has got
Rank(at) ==
  CASE at = "idle" -> 0
    [] at = "sms_lookup" -> 1
    [] at \in {"fwd_list", "bc_list"} -> 2
    [] at = "bc_sender" -> 3
    [] at \in {"await_fwd", "await_bc"} -> 4
    [] at = "await_confirm" -> 5
    [] OTHER -> 6

\* C24: a refused send ends the handling with 500, and the acknowledgement 200
\* is given only when every send was accepted; 200 is answered only by a step
\* that completes the handling (never from a read or a send that failed); a
\* handler that answered 500 attempts nothing more; the handler never goes back
\* to a read or a send it has made, and a message once handed to Twilio is
\* neither withdrawn nor issued again.
C24_NoFailureSwallowedOrRetried ==
  /\ [](\A p \in Procs : IsSms(p) =>
          /\ (\E k \in DOMAIN sends[p] : sends[p][k].status = "fail") =>
               (pc[p] = "done" /\ res[p] = 500)
          /\ res[p] = 200 => \A k \in DOMAIN sends[p] : sends[p][k].status = "ok")
  /\ [][\A p \in Procs : (IsSms(p) /\ req'[p] # Req0) =>
          /\ res[p] = 500 =>
               (pc'[p] = "done" /\ res'[p] = 500 /\ Len(sends'[p]) = Len(sends[p]))
          /\ pc'[p] # pc[p] => Rank(pc'[p]) > Rank(pc[p])
          /\ Len(sends'[p]) >= Len(sends[p])
          /\ \A k \in DOMAIN sends[p] :
               /\ [sends'[p][k] EXCEPT !.status = "x"] = [sends[p][k] EXCEPT !.status = "x"]
               /\ sends[p][k].status # "inflight" => sends'[p][k] = sends[p][k]
          /\ (res[p] = 0 /\ res'[p] = 200) =>
               \/ pc[p] = "await_confirm"
               \/ /\ pc[p] = "sms_lookup"
                  /\ req'[p].user = getUserByPhoneNumber(docs, req[p].phone)
                  /\ ~ForwardBranch(req'[p].user) /\ ~BroadcastBranch(req'[p].user)
               \/ /\ pc[p] \in {"fwd_list", "await_fwd"}
                  /\ req[p].user = <<>>
                  /\ Cardinality(Sent(p, {"forward"})') =
                       Len(listUsersByRole(docs, ADMIN))]_vars

C24_Witness ==
  \E p \in Procs :
    /\ IsSms(p) /\ pc[p] = "done" /\ res[p] = 500
    /\ \E k \in DOMAIN sends[p] : sends[p][k].status = "fail"
    /\ \E k \in DOMAIN sends[p] : sends[p][k].status = "ok"
    /\ Sent(p, ConfirmKinds) = {}

\* C26: in the log of a handled message every escalation or broadcast send
\* comes before the confirmation and was accepted by the time the confirmation
\* is in the log; a log with a refused or unsettled fan-out send holds no
\* confirmation, and nothing is started after the confirmation.
C26_ConfirmationAfterFanout ==
  [](
    \A p \in Procs : IsSms(p) =>
      /\ \A c \in Sent(p, ConfirmKinds) :
           /\ \A k \in Sent(p, FanoutKinds) : k < c /\ sends[p][k].status = "ok"
           /\ c = Len(sends[p])
      /\ (\E k \in Sent(p, FanoutKinds) : sends[p][k].status # "ok") =>
           (Sent(p, ConfirmKinds) = {} /\ res[p] # 200)
  )

C26_Witness ==
  \E p \in Procs :
    /\ IsSms(p)
    /\ Cardinality(Sent(p, {"forward"})) >= 2
    /\ \E c \in Sent(p, {"confirm_forward"}) : sends[p][c].status = "inflight"

C26_WitnessFailed ==
  \E p \in Procs :
    /\ IsSms(p) /\ ~Unrecognized(p) /\ res[p] = 500
    /\ \E k \in Sent(p, FanoutKinds) : sends[p][k].status = "fail"
    /\ \A k \in Sent(p, FanoutKinds) : sends[p][k].status # "inflight"

\* C29 as stated: when a sender whose record holds SUBSCRIBER only has been
\* sent the confirmation that the message was forwarded, at least one copy of
\* the message went to the phone of a record holding ADMIN.
C29_Original ==
  \A p \in Procs :
    (IsSms(p) /\ SubscriberOnly(p) /\ Sent(p, {"confirm_forward"}) # {}) =>
      \E k \in Sent(p, {"forward"}) : HoldersAt(ADMIN, sends[p][k].to) # {}

\* C30 as stated: no escalated copy of a message is addressed to the phone the
\* message came from.
C30_Original ==
  \A p \in Procs : IsSms(p) => SentTo(p, {"forward"}, req[p].phone) = {}

\* C30 (as amended): with the directory unchanged during the handling, an
\* escalated copy is addressed to the sender's phone only when that phone has
\* several records, the first of them holds SUBSCRIBER only and another holds
\* ADMIN; the sender's phone then gets one copy per record of it holding ADMIN.
\* A phone with at most one record never gets a copy of its own message.
C30_CopyToSenderOnlyByDuplicate ==
  [](
    \A p \in Procs : IsSms(p) =>
      /\ SentTo(p, {"forward"}, req[p].phone) # {} =>
           /\ SubscriberOnly(p)
           /\ \E i \in HoldersAt(ADMIN, req[p].phone) : i # FirstId(req[p].phone)
      /\ Cardinality(RecordsOf(req[p].phone)) <= 1 => SentTo(p, {"forward"}, req[p].phone) = {}
      /\ (FanoutStarted(p) /\ (Unrecognized(p) \/ SubscriberOnly(p))) =>
           Cardinality(SentTo(p, {"forward"}, req[p].phone)) =
             Cardinality(HoldersAt(ADMIN, req[p].phone))
  )

C30_Witness ==
  \E p \in Procs :
    /\ IsSms(p) /\ SubscriberOnly(p) /\ res[p] = 200
    /\ Cardinality(RecordsOf(req[p].phone)) = 2
    /\ Cardinality(SentTo(p, {"forward"}, req[p].phone)) = 1
    /\ \E k \in Sent(p, {"forward"}) : sends[p][k].to # req[p].phone

\* the phones an escalation of the message of p was addressed to
EscalatedTo(p) == {sends[p][k].to : k \in Sent(p, {"forward"})}

C25_WitnessTrusted ==
  \E p \in Procs :
    /\ IsSms(p) /\ ~Unrecognized(p) /\ FirstRoles(p) = {SUPERVISOR} /\ res[p] = 200
    /\ Sent(p, {"broadcast"}) # {}

\* C28 as stated: whenever the handler of a message reads the list of the
\* subscribers it will broadcast to, the record found for the sender's phone
\* in the directory as it is then holds STAFF or ADMIN.
C28_Original ==
  [][\A p \in Procs :
       (IsSms(p) /\ pc[p] = "bc_list" /\ pc'[p] = "bc_sender") => Originator(p)]_vars

\* the command of p has been let through the test of the sender's role
IsAdminCmd(p, command) == req[p].kind = "admin" /\ req[p].body = command

\* C22: when updateUserRoles succeeds, every record of the phone has exactly
\* the roles of the request, whatever it had before, with its name and phone
\* number as they were; the records of other phones and the set of documents
\* are as they were.
C22_RolesReplacedWholesale ==
  /\ [](\A ph \in Phones, R \in AdminRoleSets \cup RoleSets : nreq = 0 =>
          LET snap == WherePhone(docs, ph)
              after == updateUserRolesCommit(docs, snap, R)
          IN /\ DOMAIN after = DOMAIN docs
             /\ \A i \in DOMAIN docs :
                  after[i] = IF docs[i].phoneNumber = ph
                             THEN [name |-> docs[i].name, phoneNumber |-> ph, roles |-> R]
                             ELSE docs[i])
  /\ [][\A p \in Procs :
          (IsAdminCmd(p, "UPDATE") /\ pc[p] = "adm_up_commit" /\ pc'[p] = "await_confirm") =>
            /\ DOMAIN docs' = DOMAIN docs
            /\ RecordsOf(req[p].target) # {}
            /\ \A i \in DOMAIN docs :
                 docs'[i] = IF docs[i].phoneNumber = req[p].target
                            THEN [name |-> docs[i].name,
                                  phoneNumber |-> docs[i].phoneNumber,
                                  roles |-> req[p].roles]
                            ELSE docs[i]]_vars

C22_Witness ==
  \E p \in Procs :
    /\ IsAdminCmd(p, "UPDATE") /\ res[p] = 200
    /\ \E k \in DOMAIN sends[p] : sends[p][k].kind = "updated"
    /\ Cardinality(RecordsOf(req[p].target)) >= 2
    /\ \A i \in RecordsOf(req[p].target) : docs[i].roles = {STAFF}
    /\ \E i \in DOMAIN docs : docs[i].roles = {SUBSCRIBER, ADMIN}

\* C23: addUser makes the directory one record larger, the new record being
\* the one asked for, and leaves every record it had as it was, whether or not
\* the phone number has records already.
C23_AddInsertsOneRecord ==
  /\ [](\A id \in DocIds \ used, ph \in Phones, R \in AdminRoleSets :
          LET after == addUser(docs, id, "Bo", ph, R)
          IN /\ DOMAIN after = DOMAIN docs \cup {id}
             /\ Cardinality(DOMAIN after) = Cardinality(DOMAIN docs) + 1
             /\ after[id] = [name |-> "Bo", phoneNumber |-> ph, roles |-> R]
             /\ \A i \in DOMAIN docs : after[i] = docs[i])
  /\ [][\A p \in Procs :
          (IsAdminCmd(p, "ADD") /\ pc[p] = "adm_add" /\ pc'[p] = "await_confirm") =>
            /\ Cardinality(DOMAIN docs') = Cardinality(DOMAIN docs) + 1
            /\ \A i \in DOMAIN docs : i \in DOMAIN docs' /\ docs'[i] = docs[i]
            /\ \E id \in DOMAIN docs' \ DOMAIN docs :
                 docs'[id] = [name |-> req[p].name, phoneNumber |-> req[p].target,
                              roles |-> req[p].roles]
            /\ Cardinality({i \in DOMAIN docs' : docs'[i].phoneNumber = req[p].target}) =
                 Cardinality(RecordsOf(req[p].target)) + 1]_vars

C23_Witness ==
  \E p \in Procs :
    /\ IsAdminCmd(p, "ADD") /\ res[p] = 200
    /\ \E k \in DOMAIN sends[p] : sends[p][k].kind = "added"
    /\ Cardinality(RecordsOf(req[p].target)) = 3

\* C27: a command whose sender is not in the directory, or whose record (the
\* one the lookup returns) lacks ADMIN, changes no document and hands out no
\* document id at any step; the lookup of such a sender leads to the refusal
\* (or to 500 when the lookup fails), the only message of the handling is the
\* refusal, sent once to the sender, and no directory operation is entered.
C27_NoMutationWithoutAdmin ==
  /\ [](\A p \in Procs :
          (req[p].kind = "admin" /\ pc[p] \notin {"idle", "adm_lookup"}
             /\ (req[p].user = <<>> \/ ADMIN \notin req[p].user[1].roles)) =>
            /\ pc[p] \in {"await_confirm", "done"}
            /\ \A k \in DOMAIN sends[p] :
                 sends[p][k].kind = "denied" /\ sends[p][k].to = req[p].phone
            /\ Len(sends[p]) <= 1
            /\ res[p] = 200 => Len(sends[p]) = 1)
  /\ [][\A p \in Procs :
          (req'[p].kind = "admin" /\ (Unrecognized(p) \/ ADMIN \notin FirstRoles(p))) =>
            /\ docs' = docs /\ used' = used
            /\ (pc[p] = "adm_lookup" /\ pc'[p] # "adm_lookup") =>
                 \/ /\ pc'[p] = "await_confirm"
                    /\ sends'[p] = <<sendSms(req[p].phone, "denied", "", "")>>
                    /\ req'[p].user = getUserByPhoneNumber(docs, req[p].phone)
                 \/ pc'[p] = "done" /\ res'[p] = 500 /\ sends'[p] = <<>>]_vars

C27_Witness ==
  \E p \in Procs :
    /\ IsAdminCmd(p, "REMOVE") /\ res[p] = 200
    /\ ~Unrecognized(p) /\ FirstRoles(p) = {STAFF}
    /\ RecordsOf(req[p].target) # {}
    /\ \E k \in DOMAIN sends[p] : sends[p][k].kind = "denied" /\ sends[p][k].status = "ok"

\* C31 as stated: in the log of one message no phone number is the address of
\* two escalation or broadcast sends.
C31_Original ==
  \A p \in Procs : IsSms(p) =>
    \A ph \in AllPhones : Cardinality(SentTo(p, FanoutKinds, ph)) <= 1

\* C31 (as amended): with the directory unchanged during the handling, a phone
\* number is the address of one escalation send per record of it holding ADMIN
\* and of one broadcast send per record of it holding SUBSCRIBER (none for the
\* sender's phone), and of no other fan-out send; a phone number with at most
\* one record is the address of at most one.
C31_OneCopyPerRecord ==
  [](
    \A p \in Procs : IsSms(p) =>
      \A ph \in AllPhones :
        /\ Cardinality(SentTo(p, {"forward"}, ph)) <= Cardinality(HoldersAt(ADMIN, ph))
        /\ Cardinality(SentTo(p, {"broadcast"}, ph)) <= Cardinality(HoldersAt(SUBSCRIBER, ph))
        /\ Cardinality(RecordsOf(ph)) <= 1 => Cardinality(SentTo(p, FanoutKinds, ph)) <= 1
        /\ (FanoutStarted(p) /\ Sent(p, {"forward"}) # {}) =>
             Cardinality(SentTo(p, FanoutKinds, ph)) = Cardinality(HoldersAt(ADMIN, ph))
        /\ (FanoutStarted(p) /\ Sent(p, {"broadcast"}) # {}) =>
             Cardinality(SentTo(p, FanoutKinds, ph)) =
               IF ph = req[p].phone THEN 0 ELSE Cardinality(HoldersAt(SUBSCRIBER, ph))
  )

C31_Witness ==
  \E p \in Procs :
    /\ IsSms(p) /\ res[p] = 200
    /\ \E ph \in Phones :
         /\ Cardinality(SentTo(p, {"broadcast"}, ph)) = 2
         /\ Cardinality(HoldersAt(SUBSCRIBER, ph)) = 2

C31_WitnessForward ==
  \E p \in Procs :
    /\ IsSms(p) /\ res[p] = 200
    /\ \E ph \in Phones : Cardinality(SentTo(p, {"forward"}, ph)) = 2

\* C33: a message whose From or Body is missing is answered 400 by the step
\* that receives it: the handler is never at a read of the directory, holds no
\* result of a lookup or a listing, and its log of sends stays empty.
C33_MissingFieldRejectedFirst ==
  /\ [](\A p \in Procs :
          (req[p].kind = "sms" /\ (req[p].phone = "" \/ req[p].body = "")) =>
            /\ pc[p] = "done" /\ res[p] = 400
            /\ sends[p] = <<>>
            /\ req[p].user = <<>> /\ req[p].list = <<>>)
  /\ [][\A p \in Procs :
          (req'[p].kind = "sms" /\ (req'[p].phone = "" \/ req'[p].body = "")) =>
            (sends' = sends /\ docs' = docs /\ used' = used)]_vars

C33_Witness ==
  \E p \in Procs :
    /\ req[p].kind = "sms" /\ req[p].phone = "+1A" /\ req[p].body = ""
    /\ res[p] = 400
    /\ HoldersAt(STAFF, "+1A") # {}
    /\ \E i \in DOMAIN docs : SUBSCRIBER \in docs[i].roles /\ docs[i].phoneNumber = "+1B"

C33_WitnessNoSender ==
  \E p \in Procs :
    /\ req[p].kind = "sms" /\ req[p].phone = "" /\ req[p].body # ""
    /\ res[p] = 400
    /\ \E i \in DOMAIN docs : ADMIN \in docs[i].roles

\* the role updates received for a phone number
PutsOf(ph) == {p \in Procs : req[p].kind = "put" /\ req[p].phone = ph}

\* C32: when the role updates of a phone number that overlapped are all over
\* and one at least was answered 200, every record of the phone number holds
\* the role set of one and the same update answered 200: no record differs
\* from another and no role set is a merge of two requests.
C32_LastCommitWins ==
  /\ [](\A ph \in Phones :
          (/\ \A p \in PutsOf(ph) : pc[p] = "done"
           /\ \E p \in PutsOf(ph) : res[p] = 200) =>
            /\ RecordsOf(ph) # {}
            /\ \E p \in PutsOf(ph) :
                 /\ res[p] = 200
                 /\ \A i \in RecordsOf(ph) : docs[i].roles = req[p].roles)
  /\ [][DOMAIN docs' = DOMAIN docs /\
        \A i \in DOMAIN docs :
          /\ docs'[i].name = docs[i].name /\ docs'[i].phoneNumber = docs[i].phoneNumber
          /\ (\A p \in PutsOf(docs[i].phoneNumber) : pc[p] # "put_commit") =>
               docs'[i] = docs[i]]_vars

C32_Witness ==
  \E ph \in Phones :
    /\ Cardinality(PutsOf(ph)) >= 2
    /\ \A p \in PutsOf(ph) : pc[p] = "done" /\ res[p] = 200
    /\ \E p, q \in PutsOf(ph) : req[p].roles # req[q].roles
    /\ Cardinality(RecordsOf(ph)) >= 2

====
